---- MODULE Spec2Model ----
(***************************************************************************)
(* A model of src/main.py: the GenBank translation extractor, the record   *)
(* fetcher, the sequential batch pipeline scrape_ncbi_sequences, the       *)
(* accession parser and the upload endpoint extract_sequences.             *)
(*                                                                         *)
(* Text is modelled as a sequence of symbols.  A record content is a       *)
(* sequence over ContentAlphabet, where the keyword CDS (in either case)   *)
(* and the tag /translation= are single symbols; an uploaded text is a     *)
(* sequence of characters.                                                 *)
(***************************************************************************)
EXTENDS Integers, Sequences, FiniteSets, TLC

VARIABLES
    \* ---- scrape_ncbi_sequences, one entry per invocation ----
    accession_list,   \* the argument of the invocation
    idx,              \* position of the for loop in accession_list
    results,          \* the local list results
    genbank_content,  \* the local genbank_content of the item in progress
    pc,               \* where the invocation stands
    running,          \* the invocation the event loop is executing, or NoTask
    \* ---- the environment and what it did (history) ----
    remote,           \* the outcomes the remote source and the callees can show
    outcomes,         \* per invocation, the outcome of each item so far
    extractor_calls,  \* per invocation, the items the extractor was called for
    fetches,          \* per invocation, calls of get_genbank_content
    attempts,         \* per invocation, calls of requests.get
    delays,           \* per invocation, completed asyncio.sleep(1)
    \* ---- extract_sequences, one entry per request ----
    upload,           \* the uploaded file of the request, or NoUpload
    response,         \* the HTTP status answered, or NoResponse
    \* ---- the pure functions applied to one input ----
    stage,            \* "off", "input", "output"
    content,          \* input of extract_cds_translation_genbank
    extracted,        \* its result
    contenido,        \* input of leer_accesiones_desde_contenido
    accesiones        \* its result

vars == <<accession_list, idx, results, genbank_content, pc, running, remote,
          outcomes, extractor_calls, fetches, attempts, delays, upload,
          response, stage, content, extracted, contenido, accesiones>>

pipelineVars == <<accession_list, idx, results, genbank_content, pc, running,
                  remote, outcomes, extractor_calls, fetches, attempts, delays>>
endpointVars == <<upload, response>>
pureVars == <<stage, content, extracted, contenido, accesiones>>

(***************************************************************************)
(* Bounds of the model.                                                    *)
(***************************************************************************)
MaxLen == 3          \* longest accession list of a single invocation
MaxPacedLen == 2     \* longest accession list of a run checked for termination
MaxConcLen == 2      \* longest accession list of interleaved invocations
MaxContentLen == 5   \* longest content enumerated exhaustively
MaxTextLen == 6      \* longest input text of the parser
MaxUploadLen == 3    \* longest uploaded file, in bytes

\* All sequences over S of length at most n.
SeqsUpTo(S, n) == UNION {[1..k -> S] : k \in 0..n}

(***************************************************************************)
(* Python's None and the values that may be None.                          *)
(***************************************************************************)
None == [some |-> FALSE, val |-> <<>>]
Some(v) == [some |-> TRUE, val |-> v]
\* Python truthiness of an Optional[str]: None and "" are both falsy.
Truthy(x) == x.some /\ x.val # <<>>

(***************************************************************************)
(* extract_cds_translation_genbank (src/main.py 25-39)                     *)
(***************************************************************************)
KwUpper == "CDS"
KwLower == "cds"
Space == " "
Newline == "\n"
Tag == "/translation="
Quote == "\""
Residues == {"A", "B"}
Whitespace == {Space, Newline}
ContentAlphabet == {KwUpper, KwLower, Space, Newline, Tag, Quote} \cup Residues

\* re.IGNORECASE: the literal CDS of the pattern matches either case.
IsKeyword(sym) == sym \in {KwUpper, KwLower}

\* \s of the pattern.
IsSpace(sym) == sym \in Whitespace

\* re.DOTALL: the dot matches every symbol, the newline included.
Dot(sym) == TRUE

\* ([^"]*)" at position p: the greedy run of non-quote symbols, then the
\* closing quote.  Giving back symbols of the run cannot help, none is a quote.
RECURSIVE QuoteFrom(_, _)
QuoteFrom(s, p) ==
    IF p > Len(s) THEN 0
    ELSE IF s[p] = Quote THEN p
    ELSE QuoteFrom(s, p + 1)

Group1(s, p) ==
    LET k == QuoteFrom(s, p)
    IN  IF k = 0 THEN None ELSE Some(SubSeq(s, p, k - 1))

\* /translation=" at position j, then the group.
TagAt(s, j) ==
    IF j + 1 <= Len(s) /\ s[j] = Tag /\ s[j + 1] = Quote
    THEN Group1(s, j + 2)
    ELSE None

\* The greedy .* in place of .*?: consumes as much as it can first.
RECURSIVE LazyDotGreedyVariant(_, _)
LazyDotGreedyVariant(s, j) ==
    LET later == IF j <= Len(s) /\ Dot(s[j])
                 THEN LazyDotGreedyVariant(s, j + 1) ELSE None
    IN  IF later.some THEN later ELSE TagAt(s, j)

\* .*? from position j: lazy, tries the rest of the pattern first and
\* consumes one more symbol only when that fails.
RECURSIVE LazyDot(_, _)
LazyDot(s, j) ==
    LET here == TagAt(s, j)
    IN  IF here.some THEN here
        ELSE IF j <= Len(s) /\ Dot(s[j]) THEN LazyDot(s, j + 1)
        ELSE None

\* Length of the run of whitespace starting at position p.
RECURSIVE SpaceRun(_, _)
SpaceRun(s, p) ==
    IF p <= Len(s) /\ IsSpace(s[p]) THEN 1 + SpaceRun(s, p + 1) ELSE 0

\* \s+ followed by the rest: greedy, n symbols of whitespace with n from the
\* whole run down to 1.
RECURSIVE SpacesThenRest(_, _, _)
SpacesThenRest(s, p, n) ==
    IF n < 1 THEN None
    ELSE LET m == LazyDot(s, p + n)
         IN  IF m.some THEN m ELSE SpacesThenRest(s, p, n - 1)

\* The pattern anchored at position i.
MatchAt(s, i) ==
    IF i <= Len(s) /\ IsKeyword(s[i])
    THEN SpacesThenRest(s, i + 1, SpaceRun(s, i + 1))
    ELSE None

\* re.search: the match at the leftmost position that has one.
RECURSIVE SearchFrom(_, _)
SearchFrom(s, i) ==
    IF i > Len(s) THEN None
    ELSE LET m == MatchAt(s, i)
         IN  IF m.some THEN m ELSE SearchFrom(s, i + 1)

re_search(s) == SearchFrom(s, 1)

\* re.sub(r'\s+', '', raw): every run of whitespace replaced by nothing.
RECURSIVE re_sub_spaces(_)
re_sub_spaces(raw) ==
    IF raw = <<>> THEN <<>>
    ELSE LET n == SpaceRun(raw, 1)
         IN  IF n > 0 THEN re_sub_spaces(SubSeq(raw, n + 1, Len(raw)))
             ELSE <<raw[1]>> \o re_sub_spaces(Tail(raw))

extract_cds_translation_genbank(genbank) ==
    LET match == re_search(genbank)
    IN  IF match.some THEN Some(re_sub_spaces(match.val)) ELSE None

(***************************************************************************)
(* leer_accesiones_desde_contenido (src/main.py 108-120)                   *)
(***************************************************************************)
Comma == ","
TextWhitespace == {" ", "\n"}
TextAlphabet == {"a", "b", Comma} \cup TextWhitespace

\* str.strip(): leading and trailing whitespace removed.
RECURSIVE lstrip(_)
lstrip(t) ==
    IF t # <<>> /\ Head(t) \in TextWhitespace THEN lstrip(Tail(t)) ELSE t

RECURSIVE rstrip(_)
rstrip(t) ==
    IF t # <<>> /\ t[Len(t)] \in TextWhitespace
    THEN rstrip(SubSeq(t, 1, Len(t) - 1)) ELSE t

strip(t) == lstrip(rstrip(t))

\* Position of the first comma of t, or 0.
RECURSIVE find_comma(_, _)
find_comma(t, p) ==
    IF p > Len(t) THEN 0
    ELSE IF t[p] = Comma THEN p
    ELSE find_comma(t, p + 1)

\* str.split(','): the pieces between the commas, empty pieces included.
RECURSIVE split(_)
split(t) ==
    LET c == find_comma(t, 1)
    IN  IF c = 0 THEN <<t>>
        ELSE <<SubSeq(t, 1, c - 1)>> \o split(SubSeq(t, c + 1, Len(t)))

\* [acc.strip() for acc in pieces], without the filter.
RECURSIVE comprehension_unfiltered(_)
comprehension_unfiltered(pieces) ==
    IF pieces = <<>> THEN <<>>
    ELSE <<strip(Head(pieces))>> \o comprehension_unfiltered(Tail(pieces))

\* [acc.strip() for acc in pieces if acc.strip()]
RECURSIVE comprehension(_)
comprehension(pieces) ==
    IF pieces = <<>> THEN <<>>
    ELSE LET acc == strip(Head(pieces))
         IN  IF acc # <<>> THEN <<acc>> \o comprehension(Tail(pieces))
             ELSE comprehension(Tail(pieces))

leer_accesiones_desde_contenido(texto) ==
    LET stripped == strip(texto)
    IN  IF stripped # <<>> THEN comprehension(split(stripped)) ELSE <<>>

(***************************************************************************)
(* get_genbank_content (src/main.py 41-53)                                 *)
(***************************************************************************)
NoFault == ""

\* What one call of requests.get and the code around it can meet.
Outcome(kind, status, text, desc) ==
    [kind |-> kind, status |-> status, text |-> text, desc |-> desc]

\* response.raise_for_status(): raises HTTPError for 4xx and 5xx.
raise_for_status(status) == 400 <= status /\ status < 600

\* The body of the try block: every exception becomes None.
get_genbank_content(o) ==
    IF o.kind \in {"timeout", "transport"} THEN None
    ELSE IF raise_for_status(o.status) THEN None
    ELSE Some(o.text)

\* requests.get is called once in get_genbank_content, outside any loop.
requests_per_call(o) == 1

(***************************************************************************)
(* The inputs of the pipeline.                                             *)
(***************************************************************************)
Tasks == {"t1", "t2"}
NoTask == "none"
NoUpload == [filename |-> <<>>, bytes |-> <<>>]
NoResponse == 0
Accessions == {<<"a">>, <<"b">>}

NoMatchContent == <<"A", Space, "B">>
WrappedContent == <<KwUpper, Space, Tag, Quote, "A", Newline, "B", Quote>>
EmptyPayloadContent == <<KwLower, Newline, Tag, Quote, Quote>>
PipelineContents == {<<>>, NoMatchContent, WrappedContent, EmptyPayloadContent}
ErrorPage == <<"A">>
FaultDescs == {"boom"}

Timeout == Outcome("timeout", 0, <<>>, NoFault)
TransportFailure == Outcome("transport", 0, <<>>, NoFault)
Response(status, text) == Outcome("response", status, text, NoFault)
Fault(desc) == Outcome("fault", 0, <<>>, desc)

AllOutcomes ==
    {Timeout, TransportFailure}
    \cup {Response(st, c) : st \in {200, 304}, c \in PipelineContents}
    \cup {Response(st, ErrorPage) : st \in {404, 500}}
    \cup {Fault(d) : d \in FaultDescs}

\* One outcome for each of the four kinds of row.
FewOutcomes ==
    {Timeout, Response(200, WrappedContent), Response(200, NoMatchContent)}
    \cup {Fault(d) : d \in FaultDescs}

\* A failed fetch, a fetched record and a fault.
ConcurrentOutcomes ==
    {Timeout, Response(200, WrappedContent)} \cup {Fault(d) : d \in FaultDescs}

(***************************************************************************)
(* scrape_ncbi_sequences (src/main.py 55-106)                              *)
(***************************************************************************)
Id(accession) == <<">">> \o accession

RowSuccess(accession, seq) ==
    [ID |-> Id(accession), SEQUENCE |-> seq, estado |-> "éxito"]
RowNotFound(accession) ==
    [ID |-> Id(accession), SEQUENCE |-> <<"No encontrada en GenBank">>,
     estado |-> "secuencia no encontrada"]
\* A failed fetch reported like a missing sequence.
RowFetchErrorAsNotFound(accession) ==
    [ID |-> Id(accession), SEQUENCE |-> <<"No encontrada en GenBank">>,
     estado |-> "secuencia no encontrada"]
RowFetchError(accession) ==
    [ID |-> Id(accession), SEQUENCE |-> <<"Error obteniendo GenBank">>,
     estado |-> "error"]
RowFault(accession, desc) ==
    [ID |-> Id(accession), SEQUENCE |-> <<"Error: ", desc>>,
     estado |-> "error"]

\* `if genbank_content:` (line 68)
FetchedBranch(c) == Truthy(c)

\* `if sequence is not None:` in place of line 71.
SequenceBranchNoneOnly(seq) == seq.some
\* `if sequence:` (line 71)
SequenceBranch(seq) == Truthy(seq)

\* The loop body without its handler.
CatchesNothing(desc) == FALSE
\* `except Exception as e:` (line 95) catches every fault of the try block.
Catches(desc) == TRUE

\* results as one list shared by the invocations.
AppendShared(rows, t, row) == [u \in Tasks |-> Append(rows[u], row)]
\* An accession already reported is not reported again.
AppendDeduplicated(rows, t, row) ==
    IF \E k \in 1..Len(rows[t]) : rows[t][k].ID = row.ID THEN rows
    ELSE [rows EXCEPT ![t] = Append(@, row)]
\* results.append(row) on the local list of invocation t.
AppendRow(rows, t, row) == [rows EXCEPT ![t] = Append(@, row)]

\* The delay skipped after the last item.
AfterItemSkipLast(list, i) == IF i = Len(list) THEN "done" ELSE "sleeping"
\* Where an invocation goes when an item is finished: `await
\* asyncio.sleep(1)` (line 104) follows the try statement unconditionally.
AfterItem(list, i) == "sleeping"

\* The for statement (line 61): the next item, or `return results` (106).
LoopHeader(list, i) == IF i < Len(list) THEN "fetch" ELSE "done"

\* Whether an invocation that reaches p gives the event loop back: only at
\* the await of line 104 and when it is over.  requests.get is a blocking
\* call and the extractor is a plain function.
Suspends(p) == p \in {"sleeping", "done", "raised"}

Yield(t, p) == IF Suspends(p) THEN NoTask ELSE t

\* The request of invocation t is answered when the invocation is over.
Answer(t, p) ==
    IF upload[t] = NoUpload THEN response[t]
    ELSE IF p = "done" THEN 200
    ELSE IF p = "raised" THEN 500
    ELSE response[t]

\* The first step of an invocation: results = [] and the loop header.
Start(t) ==
    /\ pc[t] = "start"
    /\ running = NoTask
    /\ LET p == LoopHeader(accession_list[t], 0)
       IN  /\ pc' = [pc EXCEPT ![t] = p]
           /\ running' = Yield(t, p)
           /\ idx' = [idx EXCEPT ![t] = IF p = "fetch" THEN 1 ELSE 0]
    /\ results' = [results EXCEPT ![t] = <<>>]
    /\ UNCHANGED <<accession_list, genbank_content, remote, outcomes,
                   extractor_calls, fetches, attempts, delays>>
    /\ UNCHANGED <<endpointVars, pureVars>>

\* Lines 64-68 and 87-101: the call of get_genbank_content, the branch on
\* its result when it is falsy, and the handler when the call raised.
Fetch(t) ==
    /\ pc[t] = "fetch"
    /\ running = t
    /\ \E o \in remote :
         LET accession == accession_list[t][idx[t]]
             c == get_genbank_content(o)
             after == AfterItem(accession_list[t], idx[t])
             p == IF o.kind = "fault"
                  THEN (IF Catches(o.desc) THEN after ELSE "raised")
                  ELSE IF FetchedBranch(c) THEN "extract" ELSE after
         IN  /\ outcomes' = [outcomes EXCEPT ![t] = Append(@, o)]
             /\ fetches' = [fetches EXCEPT ![t] = @ + 1]
             /\ attempts' = [attempts EXCEPT ![t] =
                    @ + (IF o.kind = "fault" THEN 0 ELSE requests_per_call(o))]
             /\ genbank_content' = [genbank_content EXCEPT ![t] =
                    IF p = "extract" THEN c ELSE None]
             /\ results' =
                    IF o.kind = "fault"
                    THEN (IF Catches(o.desc)
                          THEN AppendRow(results, t, RowFault(accession, o.desc))
                          ELSE results)
                    ELSE IF FetchedBranch(c) THEN results
                    ELSE AppendRow(results, t, RowFetchError(accession))
             /\ pc' = [pc EXCEPT ![t] = p]
             /\ running' = Yield(t, p)
             /\ response' = [response EXCEPT ![t] = Answer(t, p)]
    /\ UNCHANGED <<accession_list, idx, remote, extractor_calls, delays,
                   upload, pureVars>>

\* Lines 69-86 and 95-101: the extractor on the fetched content, the row it
\* decides, and the handler when it raised.  The local genbank_content is
\* dead after the item and is cleared.
Extract(t) ==
    /\ pc[t] = "extract"
    /\ running = t
    /\ \E xf \in {NoFault} \cup {o.desc : o \in remote} :
         LET accession == accession_list[t][idx[t]]
             sequence == extract_cds_translation_genbank(genbank_content[t].val)
             after == AfterItem(accession_list[t], idx[t])
             p == IF xf # NoFault /\ ~Catches(xf) THEN "raised" ELSE after
         IN  /\ extractor_calls' = [extractor_calls EXCEPT ![t] = @ \cup {idx[t]}]
             /\ outcomes' = [outcomes EXCEPT ![t][idx[t]].desc = xf]
             /\ results' =
                    IF xf # NoFault
                    THEN (IF Catches(xf)
                          THEN AppendRow(results, t, RowFault(accession, xf))
                          ELSE results)
                    ELSE IF SequenceBranch(sequence)
                    THEN AppendRow(results, t, RowSuccess(accession, sequence.val))
                    ELSE AppendRow(results, t, RowNotFound(accession))
             /\ pc' = [pc EXCEPT ![t] = p]
             /\ running' = Yield(t, p)
             /\ response' = [response EXCEPT ![t] = Answer(t, p)]
    /\ genbank_content' = [genbank_content EXCEPT ![t] = None]
    /\ UNCHANGED <<accession_list, idx, remote, fetches, attempts, delays,
                   upload, pureVars>>

\* Line 104 completes: the event loop resumes the invocation, which goes
\* back to the loop header and on to the next item or to the return.
Wake(t) ==
    /\ pc[t] = "sleeping"
    /\ running = NoTask
    /\ delays' = [delays EXCEPT ![t] = @ + 1]
    /\ LET p == LoopHeader(accession_list[t], idx[t])
       IN  /\ pc' = [pc EXCEPT ![t] = p]
           /\ running' = Yield(t, p)
           /\ idx' = [idx EXCEPT ![t] = IF p = "fetch" THEN @ + 1 ELSE @]
           /\ response' = [response EXCEPT ![t] = Answer(t, p)]
    /\ UNCHANGED <<accession_list, results, genbank_content, remote, outcomes,
                   extractor_calls, fetches, attempts, upload, pureVars>>

(***************************************************************************)
(* extract_sequences (src/main.py 122-167)                                 *)
(***************************************************************************)
InvalidByte == "FF"
Utf8 == ("61" :> "a") @@ ("2C" :> Comma) @@ ("20" :> " ")
UploadBytes == DOMAIN Utf8 \cup {InvalidByte}
Filenames == {<<"genes", ".txt">>, <<"genes", ".csv">>, <<".txt", ".csv">>}

\* file.filename.endswith('.txt')
endswith_txt(filename) == filename # <<>> /\ filename[Len(filename)] = ".txt"

\* content.decode('utf-8') raises UnicodeDecodeError on an invalid byte.
decodable(bytes) == \A i \in 1..Len(bytes) : bytes[i] \in DOMAIN Utf8
decode(bytes) == [i \in 1..Len(bytes) |-> Utf8[bytes[i]]]

\* The handler up to the call of scrape_ncbi_sequences: the status it
\* answers at once, or NoResponse when the pipeline is called.  A failed
\* decode is caught by `except Exception` (line 166) and answered 500.
early_status(file) ==
    IF ~endswith_txt(file.filename) THEN 400
    ELSE IF ~decodable(file.bytes) THEN 500
    ELSE IF leer_accesiones_desde_contenido(decode(file.bytes)) = <<>> THEN 400
    ELSE NoResponse

\* The handler runs from the request to the first await of the pipeline: the
\* checks, then `await scrape_ncbi_sequences(accesiones)`, whose first step
\* runs at once.
Request(t) ==
    /\ pc[t] = "request"
    /\ running = NoTask
    /\ LET status == early_status(upload[t])
           list == IF decodable(upload[t].bytes)
                   THEN leer_accesiones_desde_contenido(decode(upload[t].bytes))
                   ELSE <<>>
           p == IF status # NoResponse THEN "rejected" ELSE LoopHeader(list, 0)
       IN  /\ pc' = [pc EXCEPT ![t] = p]
           /\ accession_list' = [accession_list EXCEPT ![t] =
                  IF status = NoResponse THEN list ELSE @]
           /\ idx' = [idx EXCEPT ![t] = IF p = "fetch" THEN 1 ELSE 0]
           /\ response' = [response EXCEPT ![t] =
                  IF status # NoResponse THEN status ELSE Answer(t, p)]
           /\ running' = IF p = "rejected" THEN NoTask ELSE Yield(t, p)
    /\ UNCHANGED <<results, genbank_content, remote, outcomes, extractor_calls,
                   fetches, attempts, delays, upload, pureVars>>

(***************************************************************************)
(* The pure functions applied to one input.                                *)
(***************************************************************************)
ApplyExtract ==
    /\ stage = "input"
    /\ stage' = "output"
    /\ extracted' = extract_cds_translation_genbank(content)
    /\ UNCHANGED <<content, contenido, accesiones, pipelineVars, endpointVars>>

ApplyParse ==
    /\ stage = "input"
    /\ stage' = "output"
    /\ accesiones' = leer_accesiones_desde_contenido(contenido)
    /\ UNCHANGED <<content, extracted, contenido, pipelineVars, endpointVars>>

(***************************************************************************)
(* Initial states and specifications.                                      *)
(***************************************************************************)
\* The documents of the spec's examples, longer than MaxContentLen.
TwoFeatures ==
    <<KwUpper, Space, Tag, Quote, "A", Quote, Newline,
      KwUpper, Space, Tag, Quote, "B", Quote>>
QualifiersBetween ==
    <<"A", KwLower, Space, "B", Newline, Space, Tag, "A", Newline,
      Tag, Quote, "A", Space, "B", Newline, "A", Quote, Quote>>
NoSpaceThenFeature ==
    <<KwUpper, Tag, Quote, "A", Quote, KwLower, Newline, Newline, "A",
      Tag, Quote, "B", Quote>>
ContentSamples ==
    {TwoFeatures, QualifiersBetween, NoSpaceThenFeature, WrappedContent,
     EmptyPayloadContent, NoMatchContent}

PipelineOff ==
    /\ accession_list = [t \in Tasks |-> <<>>]
    /\ idx = [t \in Tasks |-> 0]
    /\ results = [t \in Tasks |-> <<>>]
    /\ genbank_content = [t \in Tasks |-> None]
    /\ pc = [t \in Tasks |-> "idle"]
    /\ running = NoTask
    /\ remote = {}
    /\ outcomes = [t \in Tasks |-> <<>>]
    /\ extractor_calls = [t \in Tasks |-> {}]
    /\ fetches = [t \in Tasks |-> 0]
    /\ attempts = [t \in Tasks |-> 0]
    /\ delays = [t \in Tasks |-> 0]

EndpointOff ==
    /\ upload = [t \in Tasks |-> NoUpload]
    /\ response = [t \in Tasks |-> NoResponse]

PureOff ==
    /\ stage = "off"
    /\ content = <<>>
    /\ extracted = None
    /\ contenido = <<>>
    /\ accesiones = <<>>

\* The invocations `called` are about to run on lists of at most n
\* accessions against a remote source that can show the outcomes rem.
PipelineCalled(called, n, rem) ==
    /\ accession_list \in
           {l \in [Tasks -> SeqsUpTo(Accessions, n)] :
                \A t \in Tasks \ called : l[t] = <<>>}
    /\ idx = [t \in Tasks |-> 0]
    /\ results = [t \in Tasks |-> <<>>]
    /\ genbank_content = [t \in Tasks |-> None]
    /\ pc = [t \in Tasks |-> IF t \in called THEN "start" ELSE "idle"]
    /\ running = NoTask
    /\ remote = rem
    /\ outcomes = [t \in Tasks |-> <<>>]
    /\ extractor_calls = [t \in Tasks |-> {}]
    /\ fetches = [t \in Tasks |-> 0]
    /\ attempts = [t \in Tasks |-> 0]
    /\ delays = [t \in Tasks |-> 0]

\* One invocation of scrape_ncbi_sequences.
Init == PipelineCalled({"t1"}, MaxLen, AllOutcomes) /\ EndpointOff /\ PureOff

Next == \E t \in Tasks : Start(t) \/ Fetch(t) \/ Extract(t) \/ Wake(t)

Spec == Init /\ [][Next]_vars

\* One invocation on an event loop that resumes a sleeping invocation when
\* its delay is over and lets a running one go on.
InitPaced ==
    PipelineCalled({"t1"}, MaxPacedLen, FewOutcomes) /\ EndpointOff /\ PureOff

FairSpec == InitPaced /\ [][Next]_vars /\ WF_vars(Next)

\* Two invocations interleaved on one event loop.
InitConcurrent ==
    PipelineCalled(Tasks, MaxConcLen, ConcurrentOutcomes) /\ EndpointOff /\ PureOff

SpecConcurrent == InitConcurrent /\ [][Next]_vars

\* One request to the upload endpoint.
InitEndpoint ==
    /\ accession_list = [t \in Tasks |-> <<>>]
    /\ idx = [t \in Tasks |-> 0]
    /\ results = [t \in Tasks |-> <<>>]
    /\ genbank_content = [t \in Tasks |-> None]
    /\ pc = [t \in Tasks |-> IF t = "t1" THEN "request" ELSE "idle"]
    /\ running = NoTask
    /\ remote = FewOutcomes
    /\ outcomes = [t \in Tasks |-> <<>>]
    /\ extractor_calls = [t \in Tasks |-> {}]
    /\ fetches = [t \in Tasks |-> 0]
    /\ attempts = [t \in Tasks |-> 0]
    /\ delays = [t \in Tasks |-> 0]
    /\ upload \in {u \in [Tasks -> [filename : Filenames,
                                    bytes : SeqsUpTo(UploadBytes, MaxUploadLen)]
                                   \cup {NoUpload}] :
                       /\ u["t1"] # NoUpload
                       /\ \A t \in Tasks \ {"t1"} : u[t] = NoUpload}
    /\ response = [t \in Tasks |-> NoResponse]
    /\ PureOff

NextEndpoint == \E t \in Tasks : Request(t) \/ Fetch(t) \/ Extract(t) \/ Wake(t)

SpecEndpoint == InitEndpoint /\ [][NextEndpoint]_vars

\* extract_cds_translation_genbank on one content.
InitExtract ==
    /\ PipelineOff /\ EndpointOff
    /\ stage = "input"
    /\ content \in SeqsUpTo(ContentAlphabet, MaxContentLen) \cup ContentSamples
    /\ extracted = None
    /\ contenido = <<>>
    /\ accesiones = <<>>

SpecExtract == InitExtract /\ [][ApplyExtract]_vars

\* leer_accesiones_desde_contenido on one text.
InitParse ==
    /\ PipelineOff /\ EndpointOff
    /\ stage = "input"
    /\ content = <<>>
    /\ extracted = None
    /\ contenido \in SeqsUpTo(TextAlphabet, MaxTextLen)
    /\ accesiones = <<>>

SpecParse == InitParse /\ [][ApplyParse]_vars

(***************************************************************************)
(* Properties.                                                             *)
(***************************************************************************)
Started == {t \in Tasks : pc[t] # "idle"}

\* The items an invocation has finished: the one in progress does not count.
Finished(t) == IF pc[t] \in {"fetch", "extract"} THEN idx[t] - 1 ELSE idx[t]

\* Whether a fault was raised while the item of outcome o was processed.
Faulted(o) == o.desc # NoFault

\* The row of one item as a function of the item alone: its accession and
\* what its own fetch and extraction met.
ExpectedRow(accession, o) ==
    LET id == <<">">> \o accession
        failed == \/ o.kind \in {"timeout", "transport"}
                  \/ o.status \in 400..599
                  \/ o.text = <<>>
        seq == extract_cds_translation_genbank(o.text)
    IN  IF Faulted(o)
        THEN [ID |-> id, SEQUENCE |-> <<"Error: ", o.desc>>, estado |-> "error"]
        ELSE IF failed
        THEN [ID |-> id, SEQUENCE |-> <<"Error obteniendo GenBank">>,
              estado |-> "error"]
        ELSE IF seq.some /\ seq.val # <<>>
        THEN [ID |-> id, SEQUENCE |-> seq.val, estado |-> "éxito"]
        ELSE [ID |-> id, SEQUENCE |-> <<"No encontrada en GenBank">>,
              estado |-> "secuencia no encontrada"]

C1_RowsInOrder(t) ==
    /\ pc[t] # "raised"
    /\ Len(results[t]) = Finished(t)
    /\ \A k \in 1..Len(results[t]) :
           results[t][k].ID = <<">">> \o accession_list[t][k]
    /\ pc[t] = "done" => Len(results[t]) = Len(accession_list[t])

C1_PrefixKept(t) ==
    /\ Len(results'[t]) >= Len(results[t])
    /\ SubSeq(results'[t], 1, Len(results[t])) = results[t]

C2_FaultIsolated ==
    \A t \in Started :
        /\ pc[t] # "raised"
        /\ pc[t] = "done" =>
               /\ Len(outcomes[t]) = Len(accession_list[t])
               /\ Len(results[t]) = Len(accession_list[t])
        /\ \A k \in 1..Len(results[t]) :
               /\ Faulted(outcomes[t][k]) =>
                      /\ results[t][k].estado = "error"
                      /\ results[t][k].SEQUENCE = <<"Error: ", outcomes[t][k].desc>>
               /\ results[t][k] = ExpectedRow(accession_list[t][k], outcomes[t][k])

\* A batch of three has returned: item 2 faulted, items 1 and 3 found
\* their sequence.
C2_Witness ==
    /\ pc["t1"] = "done"
    /\ Len(results["t1"]) = 3
    /\ results["t1"][1].estado = "éxito"
    /\ Faulted(outcomes["t1"][2])
    /\ results["t1"][2].estado = "error"
    /\ results["t1"][3].estado = "éxito"

\* C3: an item whose fetch returned None gets the row ("error", "Error
\* obteniendo GenBank"), the extractor is not called for it, and nothing is
\* raised.
C3_FetchFailureRow ==
    \A t \in Started :
        /\ pc[t] # "raised"
        /\ \A k \in 1..Len(outcomes[t]) :
               (outcomes[t][k].kind # "fault"
                /\ get_genbank_content(outcomes[t][k]) = None) =>
                   /\ k \notin extractor_calls[t]
                   /\ Len(results[t]) >= k
                   /\ results[t][k].ID = <<">">> \o accession_list[t][k]
                   /\ results[t][k].SEQUENCE = <<"Error obteniendo GenBank">>
                   /\ results[t][k].estado = "error"

\* The fetch of the first item timed out, that of the second was answered
\* 404, and both rows are there.
C3_Witness ==
    /\ Len(results["t1"]) = 2
    /\ outcomes["t1"][1] = Timeout
    /\ outcomes["t1"][2] = Response(404, ErrorPage)
    /\ results["t1"][2].estado = "error"

\* Whether item k of invocation t was fetched (not None) without a fault.
FetchedCleanly(t, k) ==
    /\ k <= Len(results[t])
    /\ ~Faulted(outcomes[t][k])
    /\ outcomes[t][k].kind = "response"
    /\ get_genbank_content(outcomes[t][k]).some

\* C4 as claimed: the row of every fetched content is "éxito" with the
\* extracted sequence exactly when the extractor returns a sequence,
\* "secuencia no encontrada" exactly when it returns None, and never "error".
C4_AsClaimed ==
    \A t \in Started : \A k \in 1..Len(results[t]) :
        FetchedCleanly(t, k) =>
            LET seq == extract_cds_translation_genbank(outcomes[t][k].text)
                row == results[t][k]
            IN  /\ seq.some <=> (row.estado = "éxito" /\ row.SEQUENCE = seq.val)
                /\ ~seq.some <=>
                       /\ row.estado = "secuencia no encontrada"
                       /\ row.SEQUENCE = <<"No encontrada en GenBank">>
                /\ row.estado # "error"

\* C4 as amended: the row of every fetched non-empty content is "éxito" with
\* the extracted sequence exactly when the extractor returns a non-empty
\* sequence, "secuencia no encontrada" with the placeholder exactly when it
\* returns None or an empty sequence, and never "error"; a fetched empty
\* content gets the row of a failed fetch.
C4_RowByExtractor ==
    \A t \in Started : \A k \in 1..Len(results[t]) :
        FetchedCleanly(t, k) =>
            LET text == outcomes[t][k].text
                seq == extract_cds_translation_genbank(text)
                row == results[t][k]
                found == seq.some /\ seq.val # <<>>
            IN  IF text = <<>>
                THEN /\ row.estado = "error"
                     /\ row.SEQUENCE = <<"Error obteniendo GenBank">>
                ELSE /\ found <=> (row.estado = "éxito" /\ row.SEQUENCE = seq.val)
                     /\ ~found <=>
                            /\ row.estado = "secuencia no encontrada"
                            /\ row.SEQUENCE = <<"No encontrada en GenBank">>
                     /\ row.estado # "error"

\* A content whose translation is empty was fetched and its row says the
\* sequence was not found; the next item's content gave a sequence.
C4_Witness ==
    /\ Len(results["t1"]) = 2
    /\ FetchedCleanly("t1", 1)
    /\ outcomes["t1"][1].text = EmptyPayloadContent
    /\ results["t1"][1].estado = "secuencia no encontrada"
    /\ FetchedCleanly("t1", 2)
    /\ results["t1"][2] = RowSuccess(accession_list["t1"][2], <<"A", "B">>)

\* C5 as claimed: one request per call, and the call returns the response
\* text (so that the extractor can be reached) only for a 2xx response; on a
\* timeout, a transport failure and every other status it returns None.
C5_AsClaimed ==
    \A t \in Started :
        /\ pc[t] # "raised"
        /\ attempts[t] =
               Cardinality({k \in 1..Len(outcomes[t]) : outcomes[t][k].kind # "fault"})
        /\ pc[t] = "extract" =>
               LET o == outcomes[t][idx[t]]
               IN  /\ o.kind = "response"
                   /\ o.status \in 200..299
                   /\ genbank_content[t] = Some(o.text)

\* Whether the upload has one of the input-shape faults.
InputShapeFault(file) ==
    \/ ~endswith_txt(file.filename)
    \/ ~decodable(file.bytes)
    \/ leer_accesiones_desde_contenido(decode(file.bytes)) = <<>>

\* C7 as claimed: a request whose upload has an input-shape fault is
\* answered 400, and no fetch is issued and no pipeline step taken for it.
C7_AsClaimed ==
    \A t \in Started :
        (pc[t] # "request" /\ InputShapeFault(upload[t])) =>
            /\ response[t] = 400
            /\ fetches[t] = 0
            /\ pc[t] = "rejected"

\* The delay of an invocation is taken once per finished item.
C9_DelayPerItem(t) ==
    /\ pc[t] = "sleeping" => delays[t] = Len(results[t]) - 1
    /\ pc[t] # "sleeping" => delays[t] = Len(results[t])
    /\ pc[t] = "sleeping" => fetches[t] = delays[t] + 1
    /\ pc[t] = "done" =>
           /\ fetches[t] = Len(accession_list[t])
           /\ delays[t] = Len(accession_list[t])

\* A fetch starts only when every earlier fetch was followed by its delay,
\* and a delay completes only after the fetch it follows.
C9_Alternate(t) ==
    /\ fetches'[t] # fetches[t] =>
           /\ fetches'[t] = fetches[t] + 1
           /\ delays[t] = fetches[t]
           /\ delays'[t] = delays[t]
    /\ delays'[t] # delays[t] =>
           /\ delays'[t] = delays[t] + 1
           /\ fetches[t] = delays'[t]
           /\ fetches'[t] = fetches[t]

\* C9: the delay is taken exactly once after each item whatever its outcome,
\* the last item included; fetch attempts and delays strictly alternate; a
\* run over n items makes n fetch attempts and n delays and then returns.
C9_Pacing ==
    /\ [](\A t \in Started : C9_DelayPerItem(t))
    /\ [][\A t \in Started : C9_Alternate(t)]_vars
    /\ \A t \in Tasks : (pc[t] = "start") ~> (pc[t] = "done")

\* A run of two items, the first failed and the second found, has returned
\* after two fetch attempts and two delays.
C9_Witness ==
    /\ pc["t1"] = "done"
    /\ fetches["t1"] = 2
    /\ delays["t1"] = 2
    /\ results["t1"][1].estado = "error"
    /\ results["t1"][2].estado = "éxito"

\* While an invocation is inside an item no other invocation moves.
C10_Uninterrupted ==
    \A t \in Tasks : \A u \in Tasks \ {t} :
        pc[t] \in {"fetch", "extract"} =>
            /\ pc'[u] = pc[u]
            /\ results'[u] = results[u]
            /\ fetches'[u] = fetches[u]

\* C10: interleaved invocations give the event loop back only at the delay
\* (while one is inside an item, between its fetch and its row, no other
\* moves), and the rows of each are those of its own input list, each the
\* row its accession and fetch outcome give when the invocation runs alone.
C10_Independent ==
    /\ [][C10_Uninterrupted]_vars
    /\ [](\A t \in Tasks :
            /\ Len(results[t]) = Finished(t)
            /\ \A k \in 1..Len(results[t]) :
                   /\ results[t][k].ID = <<">">> \o accession_list[t][k]
                   /\ results[t][k] =
                          ExpectedRow(accession_list[t][k], outcomes[t][k]))

\* One invocation sleeps after its first item while the other, which has
\* finished an item of its own, is inside its second; their lists differ.
C10_Witness ==
    /\ pc["t1"] = "sleeping" /\ pc["t2"] = "extract"
    /\ accession_list["t1"] = <<(<<"a">>), (<<"a">>)>>
    /\ accession_list["t2"] = <<(<<"b">>), (<<"b">>)>>
    /\ Len(results["t1"]) = 1 /\ results["t1"][1].estado = "éxito"
    /\ Len(results["t2"]) = 1 /\ results["t2"][1].estado = "error"

\* The occurrences of a feature in content s: a keyword at i followed by
\* whitespace, the tag and opening quote at j and j + 1 somewhere after it,
\* and the closing quote at k, the first quote after the opening one.
FeaturePairs(s) ==
    {p \in (1..Len(s)) \X (1..Len(s)) \X (1..Len(s)) :
        /\ s[p[1]] \in {"CDS", "cds"}
        /\ p[1] + 1 <= Len(s) /\ s[p[1] + 1] \in {" ", "\n"}
        /\ p[2] >= p[1] + 2
        /\ s[p[2]] = "/translation=" /\ p[2] + 1 <= Len(s) /\ s[p[2] + 1] = "\""
        /\ p[3] >= p[2] + 2
        /\ s[p[3]] = "\""
        /\ \A x \in (p[2] + 2)..(p[3] - 1) : s[x] # "\""}

FirstPair(s) ==
    CHOOSE p \in FeaturePairs(s) :
        \A q \in FeaturePairs(s) :
            p[1] < q[1] \/ (p[1] = q[1] /\ p[2] <= q[2])

NotWhitespace(sym) == sym \notin {" ", "\n"}

CommaPositions(text) == {i \in 1..Len(text) : text[i] = ","}

\* The m-th comma-separated piece of text, m from 1.
Piece(text, m) ==
    LET cs == CommaPositions(text)
        bounds == {0, Len(text) + 1} \cup cs
        from == CHOOSE b \in bounds : Cardinality({c \in bounds : c < b}) = m - 1
        to == CHOOSE b \in bounds : Cardinality({c \in bounds : c < b}) = m
    IN  SubSeq(text, from + 1, to - 1)

\* A piece without its leading and trailing whitespace.
Trimmed(piece) ==
    LET solid == {i \in 1..Len(piece) : piece[i] \notin {" ", "\n"}}
    IN  IF solid = {} THEN <<>>
        ELSE SubSeq(piece,
                    CHOOSE i \in solid : \A j \in solid : i <= j,
                    CHOOSE i \in solid : \A j \in solid : i >= j)

NotEmpty(token) == token # <<>>

\* C8: the parser returns the comma-separated pieces of the text in their
\* order, each trimmed of surrounding whitespace, the empty ones dropped:
\* no token is empty or begins or ends with whitespace, and the result is
\* the empty list for an empty or whitespace-only text.
C8_TrimmedTokens ==
    stage = "output" =>
        LET n == Cardinality(CommaPositions(contenido)) + 1
            pieces == [m \in 1..n |-> Trimmed(Piece(contenido, m))]
        IN  /\ accesiones = SelectSeq(pieces, NotEmpty)
            /\ \A k \in 1..Len(accesiones) :
                   /\ accesiones[k] # <<>>
                   /\ accesiones[k][1] \notin {" ", "\n"}
                   /\ accesiones[k][Len(accesiones[k])] \notin {" ", "\n"}
                   /\ \A i \in 1..Len(accesiones[k]) : accesiones[k][i] # ","
            /\ (\A i \in 1..Len(contenido) : contenido[i] \in {" ", "\n"}) =>
                   accesiones = <<>>

\* " a,, b" was parsed into the tokens a and b.
C8_Witness ==
    /\ stage = "output"
    /\ contenido = <<" ", "a", ",", ",", " ", "b">>
    /\ accesiones = <<(<<"a">>), (<<"b">>)>>

====
